---- MODULE Spec2Model ----
(***************************************************************************)
(* Model of circuitsat.py: the circuit-file validator read_circuit_file,   *)
(* the Tseitin encoder CSAT_to_SAT, the duplicator copy_circuit, the       *)
(* distinctness gadget create_distinct_variables_cnf and the two           *)
(* reductions reduce_CSAT_to_SAT and reduce_CSAT2_to_SAT.                  *)
(*                                                                         *)
(* Representation.  A Python list is a TLA+ sequence, so Python's gate[0]  *)
(* is gate[1] here.  A gate is <<kind>>, <<kind, h1>> or <<kind, h1, h2>>; *)
(* a split line of the circuit file has the same shape (its operands are   *)
(* the integers int() parses).  A Circuit object is the record             *)
(* [tag |-> "Circuit", n |-> .., gates |-> ..]; the string "INVALID" that  *)
(* read_circuit_file returns on ValueError is the record Invalid.  A       *)
(* clause is a sequence of integer literals and a CNF a sequence of        *)
(* clauses.                                                                *)
(***************************************************************************)
EXTENDS Integers, Sequences, FiniteSets, TLC

\* Bounds of the model.
MaxN == 1           \* largest input count in a file header
MaxGates == 2       \* largest number of gate lines in a file
MaxPairs == 2       \* a direct gadget call gets n in 0 .. 2*MaxPairs
MaxStart == 10      \* a direct gadget call gets g in 1 .. MaxStart

VARIABLES
    pc,                 \* position in the program
    entry,              \* the function that was called
    nlines,             \* len(lines): number of lines of the circuit file
    n,                  \* read_circuit_file: n
    gates,              \* read_circuit_file: gates
    g_number_so_far,    \* read_circuit_file: g_number_so_far
    line,               \* read_circuit_file: the split line last consumed
    circuit,            \* reduce_*: circuit (the object the reader returned)
    composite_circuit,  \* reduce_CSAT2_to_SAT: composite_circuit
    cnf,                \* reduce_*: cnf
    gadget_n,           \* create_distinct_variables_cnf: argument n
    gadget_g,           \* create_distinct_variables_cnf: argument g
    variables_cnf,      \* reduce_CSAT2_to_SAT: variables_cnf
    out,                \* the clause list handed to write_cnf_file
    err                 \* the exception that left the program, if any

vars == <<pc, entry, nlines, n, gates, g_number_so_far, line, circuit,
          composite_circuit, cnf, gadget_n, gadget_g, variables_cnf, out, err>>

-----------------------------------------------------------------------------
(* Gate vocabulary *)

gate_types == <<"0", "1", "C", "A", "N", "O", "E", "X">>
nullary_gates == <<"0", "1">>
unary_gates == <<"C", "N">>
binary_gates == <<"A", "O", "E", "X">>

\* str.find for a one-character needle: its index from 0, or -1.
Find(chars, g) ==
    IF \E i \in 1..Len(chars) : chars[i] = g
    THEN (CHOOSE i \in 1..Len(chars) :
              chars[i] = g /\ \A j \in 1..(i - 1) : chars[j] # g) - 1
    ELSE 0 - 1

valid_gate_type(g) == Len(g) = 1 /\ Find(gate_types, g) # 0 - 1

is_nullary(g) == Len(g) = 1 /\ Find(nullary_gates, g) # 0 - 1

is_unary(g) == Len(g) = 1 /\ Find(unary_gates, g) # 0 - 1

is_binary(g) == Len(g) = 1 /\ Find(binary_gates, g) # 0 - 1

is_gate_valid(h, g) == h < g /\ h > 0

-----------------------------------------------------------------------------
(* Circuit objects *)

Circuit(cn, cgates) == [tag |-> "Circuit", n |-> cn, gates |-> cgates]

Invalid == [tag |-> "INVALID"]

NoCircuit == [tag |-> "none"]

-----------------------------------------------------------------------------
(* read_circuit_file *)

\* The tags a line of the file may start with: the eight kinds, an unknown
\* letter and a two-letter word.
LineTags == {"0", "1", "C", "A", "N", "O", "E", "X", "Z", "AA"}

\* The operand values a line may hold: from -1 to one past the last gate.
Operands == (0 - 1)..(MaxN + MaxGates + 1)

\* The split lines of a file: a blank line, or a tag followed by up to two
\* operands, or by three copies of the operand 1.
RawLines ==
    {<<>>}
    \cup {<<t>> : t \in LineTags}
    \cup {<<t, h1>> : t \in LineTags, h1 \in Operands}
    \cup {<<t, h1, h2>> : t \in LineTags, h1 \in Operands, h2 \in Operands}
    \cup {<<t, 1, 1, 1>> : t \in LineTags}

\* What the loop body does with one split line when the next gate's
\* variable is g: "IndexError" (line[0] of a blank line), "ValueError"
\* (caught, the reader returns "INVALID") or "ok" (the line is appended).
LineOutcome(ln, g) ==
    LET line_length == Len(ln) IN
    IF line_length = 0 THEN "IndexError"
    ELSE IF ~valid_gate_type(ln[1]) THEN "ValueError"
    ELSE IF is_nullary(ln[1]) /\ line_length = 1 THEN "ok"
    ELSE IF is_unary(ln[1]) /\ line_length = 2
         THEN IF ~is_gate_valid(ln[2], g) THEN "ValueError" ELSE "ok"
    ELSE IF is_binary(ln[1]) /\ line_length = 3
         THEN IF ~is_gate_valid(ln[2], g) \/ ~is_gate_valid(ln[3], g)
              THEN "ValueError" ELSE "ok"
    ELSE "ValueError"

Init ==
    /\ pc = "start"
    /\ entry \in {"reduce_CSAT_to_SAT", "reduce_CSAT2_to_SAT",
                  "create_distinct_variables_cnf"}
    /\ nlines = 0
    /\ n = 0
    /\ gates = <<>>
    /\ g_number_so_far = 0
    /\ line = <<>>
    /\ circuit = NoCircuit
    /\ composite_circuit = NoCircuit
    /\ cnf = <<>>
    /\ gadget_n = 0
    /\ gadget_g = 0
    /\ variables_cnf = <<>>
    /\ out = <<>>
    /\ err = "none"

\* read_circuit_file up to the loop: the file is opened and split into
\* lines; fewer than two lines, or a first line that is no integer, raise
\* ValueError.
OpenFile ==
    /\ pc = "start"
    /\ entry \in {"reduce_CSAT_to_SAT", "reduce_CSAT2_to_SAT"}
    /\ \E len \in 0..(MaxGates + 1) :
        /\ nlines' = len
        /\ \/ /\ len < 2
              /\ circuit' = Invalid
              /\ pc' = "read"
              /\ UNCHANGED <<n, g_number_so_far>>
           \/ /\ len >= 2
              /\ circuit' = Invalid          \* int(lines[0]) raises
              /\ pc' = "read"
              /\ UNCHANGED <<n, g_number_so_far>>
           \/ /\ len >= 2
              /\ \E header \in (0 - 1)..MaxN :
                    /\ n' = header
                    /\ g_number_so_far' = header + 1
              /\ pc' = "reading"
              /\ UNCHANGED circuit
    /\ UNCHANGED <<entry, gates, line, composite_circuit, cnf, gadget_n,
                   gadget_g, variables_cnf, out, err>>

\* One pass of the loop over lines[1:], and the return after the last line.
\* The reader's locals n, gates and g_number_so_far end with its frame.
ReadLine ==
    /\ pc = "reading"
    /\ Len(gates) < nlines - 1
    /\ \E ln \in RawLines :
        /\ line' = ln
        /\ LET outcome == LineOutcome(ln, g_number_so_far) IN
           \/ /\ outcome = "IndexError"
              /\ pc' = "raised"
              /\ err' = "IndexError"
              /\ n' = 0 /\ gates' = <<>> /\ g_number_so_far' = 0
              /\ UNCHANGED circuit
           \/ /\ outcome = "ValueError"
              /\ pc' = "read"
              /\ circuit' = Invalid
              /\ n' = 0 /\ gates' = <<>> /\ g_number_so_far' = 0
              /\ UNCHANGED err
           \/ /\ outcome = "ok"
              /\ IF Len(gates) + 1 = nlines - 1
                 THEN /\ pc' = "read"
                      /\ circuit' = Circuit(n, Append(gates, ln))
                      /\ n' = 0 /\ gates' = <<>> /\ g_number_so_far' = 0
                 ELSE /\ pc' = "reading"
                      /\ gates' = Append(gates, ln)
                      /\ g_number_so_far' = g_number_so_far + 1
                      /\ UNCHANGED <<n, circuit>>
              /\ UNCHANGED err
    /\ UNCHANGED <<entry, nlines, composite_circuit, cnf, gadget_n,
                   gadget_g, variables_cnf, out>>

-----------------------------------------------------------------------------
(* CSAT_to_SAT *)

\* The clauses the loop body adds for the gate at variable g.
GateClauses(gate, g) ==
    LET gate_type == gate[1]
        gate_length == Len(gate)
        h1 == IF gate_length = 2 \/ gate_length = 3 THEN gate[2] ELSE 0
        h2 == IF gate_length = 3 THEN gate[3] ELSE 0
    IN  IF gate_type = "0" THEN << <<0 - g>> >>
        ELSE IF gate_type = "1" THEN << <<g>> >>
        ELSE IF gate_type = "C" THEN << <<g, 0 - h1>>, <<0 - g, h1>> >>
        ELSE IF gate_type = "N" THEN << <<g, h1>>, <<0 - g, 0 - h1>> >>
        ELSE IF gate_type = "A"
             THEN << <<0 - g, h1>>, <<0 - g, h2>>, <<g, 0 - h1, 0 - h2>> >>
        ELSE IF gate_type = "O"
             THEN << <<g, 0 - h1>>, <<g, 0 - h2>>, <<0 - g, h1, h2>> >>
        ELSE IF gate_type = "E"
             THEN << <<g, 0 - h1, 0 - h2>>, <<g, h1, h2>>,
                     <<0 - g, h1, 0 - h2>>, <<0 - g, 0 - h1, h2>> >>
        ELSE << <<0 - g, 0 - h1, 0 - h2>>, <<0 - g, h1, h2>>,
                <<g, h1, 0 - h2>>, <<g, 0 - h1, h2>> >>

\* The loop over enumerate(circuit.gates, start=circuit.n + 1), from the
\* i-th gate on.
RECURSIVE EncodeFrom(_, _)
EncodeFrom(c, i) ==
    IF i > Len(c.gates) THEN <<>>
    ELSE GateClauses(c.gates[i], c.n + i) \o EncodeFrom(c, i + 1)

\* CSAT_to_SAT without the closing unit clause.
CSAT_to_SAT_NoOutputClause(c) == EncodeFrom(c, 1)

CSAT_to_SAT(c) == EncodeFrom(c, 1) \o << <<c.n + Len(c.gates)>> >>

-----------------------------------------------------------------------------
(* copy_circuit *)

find_correct_copy_g(gate, cn, original_g, circuit_len) ==
    IF gate <= cn THEN cn + gate ELSE original_g + circuit_len

find_correct_original_g(gate, cn) ==
    IF gate > cn THEN gate + cn ELSE gate

\* [gate]: the list whose only element is the gate list itself.  Its first
\* element is the list ['0'] or ['1'], written here as the string "['0']"
\* or "['1']": a value of length 1 that equals none of the eight kinds.
ListOf(gate) == << "['" \o gate[1] \o "']" >>

\* What the loop body stores in original_gates[index]; a gate of length 1
\* is left as it is.
OriginalGate(gate, cn) ==
    IF Len(gate) = 1 THEN gate
    ELSE IF Len(gate) = 2
         THEN <<gate[1], find_correct_original_g(gate[2], cn)>>
    ELSE <<gate[1], find_correct_original_g(gate[2], cn),
                    find_correct_original_g(gate[3], cn)>>

\* What the loop body appends to copy_gates.
CopyGate(gate, cn, circuit_len) ==
    IF Len(gate) = 1 THEN ListOf(gate)
    ELSE IF Len(gate) = 2
         THEN <<gate[1],
                find_correct_copy_g(gate[2], cn,
                    find_correct_original_g(gate[2], cn), circuit_len)>>
    ELSE <<gate[1],
           find_correct_copy_g(gate[2], cn,
               find_correct_original_g(gate[2], cn), circuit_len),
           find_correct_copy_g(gate[3], cn,
               find_correct_original_g(gate[3], cn), circuit_len)>>

\* original_gates is circuit.gates itself (the same list object), so the
\* assignments original_gates[index] = ... rewrite the argument's gates.
\* Each pass reads the gate at its own index before it is replaced, and the
\* list's length never changes.
GatesAfterCopy(c) ==
    [index \in 1..Len(c.gates) |-> OriginalGate(c.gates[index], c.n)]

CopyGates(c) ==
    [index \in 1..Len(c.gates) |->
        CopyGate(c.gates[index], c.n, Len(c.gates))]

\* copy_circuit: arg is the argument object as the call leaves it, ret the
\* Circuit returned.
copy_circuit(c) ==
    LET double_n == 2 * c.n
        original_gates == GatesAfterCopy(c)
        copy_gates == CopyGates(c)
        last_gate == <<"A", double_n + Len(original_gates),
                       double_n + Len(original_gates) + Len(copy_gates)>>
    IN  [arg |-> Circuit(c.n, original_gates),
         ret |-> Circuit(double_n,
                         original_gates \o copy_gates \o <<last_gate>>)]

-----------------------------------------------------------------------------
(* create_distinct_variables_cnf *)

XorClauses(g, t1, t2) ==
    << <<0 - g, 0 - t1, 0 - t2>>, <<0 - g, t1, t2>>,
       <<g, t1, 0 - t2>>, <<g, 0 - t1, t2>> >>

\* The OR clauses folding the accumulator with the wrong earlier index.
OrClauses_WrongPrev(g) ==
    << <<g, 0 - (g - 3)>>, <<g, 0 - (g - 1)>>, <<0 - g, g - 3, g - 1>> >>

OrClauses(g) ==
    << <<g, 0 - (g - 2)>>, <<g, 0 - (g - 1)>>, <<0 - g, g - 2, g - 1>> >>

\* var_list = [e+1 for e in range(n)]
var_list(gn) == [e \in 1..gn |-> e]

\* tuple_list = list(zip(original_vars, copy_vars)), the two halves of
\* var_list cut at int(len(var_list)/2).
tuple_list(gn) ==
    LET vl == var_list(gn)
        half == Len(vl) \div 2
        original_vars == SubSeq(vl, 1, half)
        copy_vars == SubSeq(vl, half + 1, Len(vl))
    IN  [i \in 1..(IF Len(original_vars) < Len(copy_vars)
                   THEN Len(original_vars) ELSE Len(copy_vars)) |->
            <<original_vars[i], copy_vars[i]>>]

\* The loop over tuple_list[1:], from the i-th pair on, with g the next
\* free index.
RECURSIVE DistinctFrom(_, _, _)
DistinctFrom(tl, i, g) ==
    IF i > Len(tl) THEN <<>>
    ELSE XorClauses(g, tl[i][1], tl[i][2]) \o OrClauses(g + 1)
         \o DistinctFrom(tl, i + 1, g + 2)

\* tuple_list[0] raises IndexError when the list is empty.
distinct_raises(gn) == Len(tuple_list(gn)) = 0

\* The clause list returned when nothing is raised.
create_distinct_variables_cnf(gn, g) ==
    LET tl == tuple_list(gn) IN
    XorClauses(g, tl[1][1], tl[1][2]) \o DistinctFrom(tl, 2, g + 1)

-----------------------------------------------------------------------------
(* reduce_CSAT_to_SAT, reduce_CSAT2_to_SAT *)

\* The two unit clauses merged into one clause.
InvalidCnf_OneClause == << <<0 - 1, 1>> >>

\* write_cnf_file([[-1], [1]], outfile)
InvalidCnf == << <<0 - 1>>, <<1>> >>

\* Both reductions: the reader returned "INVALID".
WriteInvalid ==
    /\ pc = "read"
    /\ circuit = Invalid
    /\ out' = InvalidCnf
    /\ pc' = "done"
    /\ UNCHANGED <<entry, nlines, n, gates, g_number_so_far, line, circuit,
                   composite_circuit, cnf, gadget_n, gadget_g,
                   variables_cnf, err>>

\* reduce_CSAT_to_SAT on a Circuit.
ReduceCSAT ==
    /\ pc = "read"
    /\ entry = "reduce_CSAT_to_SAT"
    /\ circuit # Invalid
    /\ cnf' = CSAT_to_SAT(circuit)
    /\ out' = cnf'
    /\ pc' = "done"
    /\ UNCHANGED <<entry, nlines, n, gates, g_number_so_far, line, circuit,
                   composite_circuit, gadget_n, gadget_g, variables_cnf,
                   err>>

\* reduce_CSAT2_to_SAT on a Circuit: composite_circuit = copy_circuit(circuit)
CopyCircuit ==
    /\ pc = "read"
    /\ entry = "reduce_CSAT2_to_SAT"
    /\ circuit # Invalid
    /\ circuit' = copy_circuit(circuit).arg
    /\ composite_circuit' = copy_circuit(circuit).ret
    /\ pc' = "copied"
    /\ UNCHANGED <<entry, nlines, n, gates, g_number_so_far, line, cnf,
                   gadget_n, gadget_g, variables_cnf, out, err>>

\* cnf = CSAT_to_SAT(composite_circuit)
EncodeComposite ==
    /\ pc = "copied"
    /\ cnf' = CSAT_to_SAT(composite_circuit)
    /\ pc' = "encoded"
    /\ UNCHANGED <<entry, nlines, n, gates, g_number_so_far, line, circuit,
                   composite_circuit, gadget_n, gadget_g, variables_cnf,
                   out, err>>

\* variables_cnf = create_distinct_variables_cnf(...), then the write.
DistinctVariables ==
    /\ pc = "encoded"
    /\ gadget_n' = composite_circuit.n
    /\ gadget_g' = composite_circuit.n + Len(composite_circuit.gates) + 1
    /\ IF distinct_raises(gadget_n')
       THEN /\ pc' = "raised"
            /\ err' = "IndexError"
            /\ UNCHANGED <<variables_cnf, out>>
       ELSE /\ variables_cnf' =
                   create_distinct_variables_cnf(gadget_n', gadget_g')
            /\ out' = cnf \o variables_cnf'
            /\ pc' = "done"
            /\ UNCHANGED err
    /\ UNCHANGED <<entry, nlines, n, gates, g_number_so_far, line, circuit,
                   composite_circuit, cnf>>

\* create_distinct_variables_cnf called on its own.
CallDistinct ==
    /\ pc = "start"
    /\ entry = "create_distinct_variables_cnf"
    /\ \E gn \in 0..(2 * MaxPairs), g \in 1..MaxStart :
        /\ gadget_n' = gn
        /\ gadget_g' = g
        /\ IF distinct_raises(gn)
           THEN /\ pc' = "raised"
                /\ err' = "IndexError"
                /\ UNCHANGED variables_cnf
           ELSE /\ variables_cnf' = create_distinct_variables_cnf(gn, g)
                /\ pc' = "returned"
                /\ UNCHANGED err
    /\ UNCHANGED <<entry, nlines, n, gates, g_number_so_far, line, circuit,
                   composite_circuit, cnf, out>>

Next ==
    \/ OpenFile
    \/ ReadLine
    \/ WriteInvalid
    \/ ReduceCSAT
    \/ CopyCircuit
    \/ EncodeComposite
    \/ DistinctVariables
    \/ CallDistinct

Spec == Init /\ [][Next]_vars
-----------------------------------------------------------------------------
(* Reference semantics: gate kinds, circuits and CNF formulas *)

Kinds == {"0", "1", "C", "N", "A", "O", "E", "X"}

ArityOf(kind) ==
    IF kind \in {"0", "1"} THEN 0 ELSE IF kind \in {"C", "N"} THEN 1 ELSE 2

\* The Boolean function of a gate kind.
GateFn(kind, v1, v2) ==
    CASE kind = "0" -> FALSE
      [] kind = "1" -> TRUE
      [] kind = "C" -> v1
      [] kind = "N" -> ~v1
      [] kind = "A" -> v1 /\ v2
      [] kind = "O" -> v1 \/ v2
      [] kind = "E" -> v1 = v2
      [] kind = "X" -> v1 # v2

\* The gate at variable g is a gate of the vocabulary: its kind is one of
\* the eight, its operand count is the kind's arity, 0 < operand < g.
ValidGate(gate, g) ==
    /\ Len(gate) >= 1
    /\ gate[1] \in Kinds
    /\ Len(gate) - 1 = ArityOf(gate[1])
    /\ \A j \in 2..Len(gate) : 0 < gate[j] /\ gate[j] < g

ValidCircuit(c) ==
    /\ c.tag = "Circuit"
    /\ c.n >= 0
    /\ Len(c.gates) >= 1
    /\ \A i \in 1..Len(c.gates) : ValidGate(c.gates[i], c.n + i)

\* The value of every variable of a valid circuit under the input
\* assignment inp, a function on 1..n.
EvalCircuit(c, inp) ==
    LET val[v \in 1..(c.n + Len(c.gates))] ==
            IF v <= c.n THEN inp[v]
            ELSE LET gate == c.gates[v - c.n] IN
                 GateFn(gate[1],
                        IF Len(gate) >= 2 THEN val[gate[2]] ELSE FALSE,
                        IF Len(gate) = 3 THEN val[gate[3]] ELSE FALSE)
    IN  val

Output(c, inp) == EvalCircuit(c, inp)[c.n + Len(c.gates)]

Inputs(k) == [1..k -> BOOLEAN]

\* The assignment to 2k inputs that gives both halves the assignment a.
Twice(a, k) == [v \in 1..(2 * k) |-> IF v <= k THEN a[v] ELSE a[v - k]]

LitTrue(a, lit) == IF lit > 0 THEN a[lit] ELSE ~a[0 - lit]

Satisfies(a, f) ==
    \A i \in 1..Len(f) : \E j \in 1..Len(f[i]) : LitTrue(a, f[i][j])

-----------------------------------------------------------------------------
(* C1: the Tseitin encoding *)

\* reduce_CSAT_to_SAT has encoded the valid circuit the reader returned.
EncodedValid ==
    /\ pc = "done"
    /\ entry = "reduce_CSAT_to_SAT"
    /\ ValidCircuit(circuit)

\* C1: for every valid circuit, the CNF of CSAT_to_SAT is satisfiable iff
\* some input assignment makes the last gate TRUE, and every satisfying
\* assignment gives the last gate TRUE and every gate variable the value
\* the gate evaluates to under the assignment's inputs.
C1_TseitinEquisatisfiable ==
    EncodedValid =>
        LET k == Len(circuit.gates)
            total == circuit.n + k
            inputsOf(a) == [v \in 1..circuit.n |-> a[v]]
        IN  /\ (\E a \in Inputs(total) : Satisfies(a, cnf))
                <=> (\E inp \in Inputs(circuit.n) : Output(circuit, inp))
            /\ \A a \in Inputs(total) :
                  Satisfies(a, cnf) =>
                      /\ Output(circuit, inputsOf(a))
                      /\ \A v \in 1..total :
                            a[v] = EvalCircuit(circuit, inputsOf(a))[v]

\* A circuit of two gates, the last one binary over an input and a gate,
\* was encoded and its CNF has a satisfying assignment.
C1_Witness ==
    /\ EncodedValid
    /\ circuit.n >= 1
    /\ Len(circuit.gates) = 2
    /\ Len(circuit.gates[2]) = 3
    /\ circuit.gates[2][2] <= circuit.n
    /\ circuit.gates[2][3] > circuit.n
    /\ \E a \in Inputs(circuit.n + 2) : Satisfies(a, cnf)

-----------------------------------------------------------------------------
(* C4: the validator *)

\* C4: read_circuit_file returns "INVALID" when the file holds no gate line
\* and when the line it consumes is no gate of the vocabulary at its
\* variable (no tag or an unknown tag, an operand count other than the
\* kind's arity, an operand outside 0 < h < n+i); every Circuit it returns
\* has at least one gate and only gates of the vocabulary with operands in
\* range.
C4_ValidatorRejects ==
    /\ [](pc = "read" /\ nlines < 2 => circuit = Invalid)
    /\ [][pc = "reading" /\ ~ValidGate(line', g_number_so_far)
            => pc' = "read" /\ circuit' = Invalid]_vars
    /\ [](pc = "read" /\ circuit # Invalid =>
            /\ circuit.tag = "Circuit"
            /\ Len(circuit.gates) >= 1
            /\ \A i \in 1..Len(circuit.gates) :
                  ValidGate(circuit.gates[i], circuit.n + i))

-----------------------------------------------------------------------------
(* C5: the reductions on an invalid circuit *)

\* C5: when the reader returned "INVALID", nothing is encoded or duplicated
\* and the CNF written is exactly {-1}, {1}, which no assignment satisfies.
C5_InvalidIsUnsat ==
    circuit = Invalid =>
        /\ pc \in {"read", "done"}
        /\ cnf = <<>>
        /\ composite_circuit = NoCircuit
        /\ variables_cnf = <<>>
        /\ pc = "done" =>
              /\ out = << <<0 - 1>>, <<1>> >>
              /\ \A a \in Inputs(1) : ~Satisfies(a, out)

\* reduce_CSAT2_to_SAT wrote its CNF for a file whose line was rejected.
C5_Witness ==
    /\ pc = "done"
    /\ entry = "reduce_CSAT2_to_SAT"
    /\ circuit = Invalid
    /\ nlines >= 2
    /\ Len(line) >= 1
    /\ Len(out) = 2

-----------------------------------------------------------------------------
(* C2, C9: the distinctness gadget *)

\* create_distinct_variables_cnf has returned, called on its own or by
\* reduce_CSAT2_to_SAT, for two blocks of gadget_n / 2 >= 1 variables and a
\* starting index above both blocks.
GadgetReturned ==
    /\ \/ pc = "returned"
       \/ pc = "done" /\ entry = "reduce_CSAT2_to_SAT" /\ circuit # Invalid
    /\ gadget_n >= 2
    /\ gadget_n % 2 = 0
    /\ gadget_g > gadget_n

\* The helper indices of coordinate i when the first helper is g0.
DiffVar(i, g0) == IF i = 1 THEN g0 ELSE g0 + 2 * i - 3

AccVar(i, g0) == IF i = 1 THEN g0 ELSE g0 + 2 * i - 2

\* The clause tables of XOR and OR, as sets of sets of literals.
XorTable(g, h1, h2) ==
    {{0 - g, 0 - h1, 0 - h2}, {0 - g, h1, h2}, {g, h1, 0 - h2},
     {g, 0 - h1, h2}}

OrTable(g, h1, h2) == {{g, 0 - h1}, {g, 0 - h2}, {0 - g, h1, h2}}

ClauseSet(f) == {{f[i][j] : j \in 1..Len(f[i])} : i \in 1..Len(f)}

VarsOf(f) ==
    UNION {{IF f[i][j] < 0 THEN 0 - f[i][j] ELSE f[i][j] :
                j \in 1..Len(f[i])} : i \in 1..Len(f)}

\* C9: the gadget's clauses are the XOR clauses of d_i over (i, m+i) and
\* the OR clauses of acc_i over (acc_(i-1), d_i) with acc_1 = d_1; the
\* helper indices are 2m-1 distinct indices, none below g0; the assignments
\* satisfying the clauses are those that give every helper its function's
\* value, and in each of them the last helper g0+2m-2 is TRUE iff some
\* x_i differs from y_i.
C9_GadgetDefinesHelpers ==
    GadgetReturned =>
        LET m == gadget_n \div 2
            g0 == gadget_g
            helpers == VarsOf(variables_cnf) \ (1..gadget_n)
            vs == (1..gadget_n) \cup helpers
        IN  /\ ClauseSet(variables_cnf) =
                  UNION {XorTable(DiffVar(i, g0), i, m + i) : i \in 1..m}
                  \cup UNION {OrTable(AccVar(i, g0), AccVar(i - 1, g0),
                                      DiffVar(i, g0)) : i \in 2..m}
            /\ Cardinality(helpers) = 2 * m - 1
            /\ \A h \in helpers : h >= g0
            /\ \A a \in [vs -> BOOLEAN] :
                  /\ Satisfies(a, variables_cnf) <=>
                        /\ \A i \in 1..m :
                              a[DiffVar(i, g0)] = (a[i] # a[m + i])
                        /\ \A i \in 2..m :
                              a[AccVar(i, g0)] =
                                 (a[AccVar(i - 1, g0)] \/ a[DiffVar(i, g0)])
                  /\ Satisfies(a, variables_cnf) =>
                        (a[g0 + 2 * m - 2] <=> \E i \in 1..m : a[i] # a[m + i])

\* The gadget returned for two blocks of two variables.
C9_Witness ==
    /\ GadgetReturned
    /\ gadget_n = 4
    /\ Len(variables_cnf) = 11

\* C2: the gadget's clauses include the unit clause of the last
\* accumulator, and every assignment satisfying them has x_i # y_i for
\* some coordinate i.
C2_GadgetForcesDifference ==
    GadgetReturned =>
        LET m == gadget_n \div 2
            vs == (1..gadget_n) \cup VarsOf(variables_cnf)
        IN  /\ \E i \in 1..Len(variables_cnf) :
                  variables_cnf[i] = <<AccVar(m, gadget_g)>>
            /\ \A a \in [vs -> BOOLEAN] :
                  Satisfies(a, variables_cnf) =>
                      \E i \in 1..m : a[i] # a[m + i]

-----------------------------------------------------------------------------
(* C3, C6, C8: the duplicator *)

\* The step in which copy_circuit runs on a valid circuit.
CopyStep == pc = "read" /\ pc' = "copied" /\ ValidCircuit(circuit)

\* C3: the circuit copy_circuit returns can be evaluated, and with both
\* input halves set to a its last gate has the value the argument circuit,
\* as it was before the call, has on a.
C3_DuplicateSameOutput ==
    [][CopyStep =>
          /\ ValidCircuit(composite_circuit')
          /\ \A a \in Inputs(circuit.n) :
                Output(composite_circuit', Twice(a, circuit.n))
                    = Output(circuit, a)]_vars

\* C6: copy_circuit leaves its argument as it was, so that encoding it and
\* duplicating it again give what they gave before.
C6_CopyDoesNotMutate ==
    [][CopyStep =>
          /\ circuit' = circuit
          /\ CSAT_to_SAT(circuit') = CSAT_to_SAT(circuit)
          /\ copy_circuit(circuit').ret = copy_circuit(circuit).ret]_vars

\* C8: copy_circuit returns 2n inputs and 2k+1 gates: the k original-side
\* gates, the k copy-side gates and ['A', 2n+k, 2n+2k]; gates i and k+i
\* have the kind and the arity of the argument's gate i, with every operand
\* ref mapped to ref or ref+n on the original side and to n+ref or ref+n+k
\* on the copy side.
C8_DuplicateLayout ==
    [][CopyStep =>
          LET cn == circuit.n
              k == Len(circuit.gates)
              d == composite_circuit'
          IN  /\ d.n = 2 * cn
              /\ Len(d.gates) = 2 * k + 1
              /\ d.gates[2 * k + 1] = <<"A", 2 * cn + k, 2 * cn + 2 * k>>
              /\ \A i \in 1..k :
                    LET gate == circuit.gates[i] IN
                    /\ Len(d.gates[i]) = Len(gate)
                    /\ Len(d.gates[k + i]) = Len(gate)
                    /\ d.gates[i][1] = gate[1]
                    /\ d.gates[k + i][1] = gate[1]
                    /\ \A j \in 2..Len(gate) :
                          /\ d.gates[i][j] =
                               (IF gate[j] <= cn THEN gate[j]
                                ELSE gate[j] + cn)
                          /\ d.gates[k + i][j] =
                               (IF gate[j] <= cn THEN cn + gate[j]
                                ELSE gate[j] + cn + k)]_vars

-----------------------------------------------------------------------------
(* C7, C10: the CSAT2 pipeline *)

NoZeroLiteral(f) ==
    \A i \in 1..Len(f) : \A j \in 1..Len(f[i]) : f[i][j] # 0

\* C7: for a circuit with n >= 1 inputs, no clause of CSAT_to_SAT(C), of
\* CSAT_to_SAT(copy_circuit(C)) or of the gadget holds the literal 0.
C7_NoZeroLiteral ==
    circuit.tag = "Circuit" /\ circuit.n >= 1 =>
        /\ NoZeroLiteral(cnf)
        /\ NoZeroLiteral(variables_cnf)
        /\ NoZeroLiteral(out)

\* C10: for a circuit with n >= 0 inputs the CSAT2 pipeline raises nothing.
C10_PipelineTotal ==
    /\ entry = "reduce_CSAT2_to_SAT"
    /\ circuit.tag = "Circuit"
    /\ circuit.n >= 0
    => pc # "raised" /\ err = "none"

====
